---- MODULE Spec2Model ----
(***************************************************************************)
(* The round-phase state machine and ledger of the public-goods game       *)
(* (src/game_logic.py) and the request handlers that drive it (src/app.py).*)
(*                                                                         *)
(* Money is a real number in the source.  Here every amount is an exact    *)
(* integer count of 1/Unit of a currency unit; Unit is chosen so that the  *)
(* share  total * multiplier / len(players)  is exact for the multipliers  *)
(* the model draws and up to six participants, and so that 0.01 is a whole *)
(* number of units (Cent).  The multiplier is held in hundredths.  The     *)
(* rounding error of binary floating point is not modelled.                *)
(***************************************************************************)
EXTENDS Integers, Sequences, FiniteSets, TLC

\* ------------------------------------------------------------- bounds
\* The longest list of player slots a setup form submits (the scenario list
\* below is submitted as well).
MaxPlayers == 2

\* ---------------------------------------------------------- constants
InvestmentLimit == 5
DefaultBank == 100
LLMClamp == 5

Unit == 12 * 100
Cent == Unit \div 100
MultScale == 10 * 10

\* The multipliers a setup form submits: 1.5 (the default) and 1.25.
Multipliers == {150, 125}
\* The round counts a setup form submits; 0 is accepted by int().
RoundCounts == {0, 1, 2}
\* Direct callers are followed until the round counter or the number of
\* logged rounds reaches the largest round count.
RoundCap == CHOOSE n \in RoundCounts : \A k \in RoundCounts : k <= n
LogRoundsCap == RoundCap

\* An optional argument: <<>> is None, <<v>> is the value v.
None == <<>>
Some(v) == <<v>>
EmptyMap == [x \in {} |-> 0]

RECURSIVE SumOver(_, _)
SumOver(f, S) ==
    IF S = {} THEN 0
    ELSE LET x == CHOOSE y \in S : TRUE IN f[x] + SumOver(f, S \ {x})

\* sum(d.values())
SumValues(f) == SumOver(f, DOMAIN f)

Max(a, b) == IF a >= b THEN a ELSE b
Min(a, b) == IF a <= b THEN a ELSE b

\* ------------------------------------------------------------ players
\* A name is <<prefix, k>>: "Human_3" is <<"Human", 3>>.
StartsWithHuman(name) == name[1] = "Human"

\* Player.__init__ with the defaults of a human slot; player_id is a fresh
\* uuid, modelled by the slot number k (roster ids are <= 0).
NewHuman(k) ==
    [player_id |-> k, name |-> <<"Human", k>>, player_type |-> "human",
     bank |-> DefaultBank * Unit, personality |-> "N/A", isLLM |-> FALSE]

\* LLMAgent(...) as start_game builds it for a personality slot.
NewAgent(k) ==
    [player_id |-> k, name |-> <<"Pers", k>>, player_type |-> "ai_llm",
     bank |-> DefaultBank * Unit, personality |-> "Pers", isLLM |-> TRUE]

\* The roster entry players.json holds: an LLM agent with a carried-over bank.
RosterId == 0
RosterPlayer ==
    [player_id |-> RosterId, name |-> <<"Roster", 0>>, player_type |-> "ai_llm",
     bank |-> (DefaultBank + 20) * Unit, personality |-> "Pers", isLLM |-> TRUE]

\* ------------------------------------------------------ LLM replies
\* What the provider call of an LLMAgent does: raise, or return a text that
\* does not start with "INVESTMENT:", or return "INVESTMENT: <amount>".
ReplyError == [kind |-> "error", amount |-> 0]
ReplyText == [kind |-> "text", amount |-> 0]
ReplyInvestment(a) == [kind |-> "investment", amount |-> a]
Replies == {ReplyError, ReplyText, ReplyInvestment(9), ReplyInvestment(0 - 2)}

\* The replies of one phase call, one per list position.  A provider that is
\* down raises on every call; one that is up answers every agent alike, or
\* has the first position decline and the others give all.
ReplyProfiles(n, up) ==
    IF up
    THEN {[i \in 1..n |-> r] : r \in Replies \ {ReplyError}}
            \cup {[i \in 1..n |-> IF i = 1 THEN ReplyInvestment(0 - 2)
                                             ELSE ReplyInvestment(9)]}
    ELSE {[i \in 1..n |-> ReplyError]}

\* make_decision returning the 'N/A' sentinel as rationale when the provider
\* call raises.
MakeDecisionUnlabelled(reply) ==
    IF reply.kind = "error" THEN <<0, "N/A">>
    ELSE IF reply.kind = "investment"
         THEN <<Max(0, Min(LLMClamp, reply.amount)), "LLM response">>
         ELSE <<0, "LLM response">>

\* LLMAgent.make_decision: <<decision, explanation>>.
MakeDecision(reply) ==
    IF reply.kind = "error" THEN <<0, "API Error">>
    ELSE IF reply.kind = "investment"
         THEN <<Max(0, Min(LLMClamp, reply.amount)), "LLM response">>
         ELSE <<0, "LLM response">>

\* LLMAgent.make_statement.
MakeStatement(reply) ==
    IF reply.kind = "error" THEN "..." ELSE "LLM statement"

\* What a caller passes as human_decision / human_statement.
HumanDecisions == {None, Some(0), Some(24)}
HumanStatements == {None, Some("pass")}

\* --------------------------------------------------------------- Game
Range(s) == {s[i] : i \in DOMAIN s}

NoResults == [decisions |-> EmptyMap, payoffs |-> EmptyMap, explanations |-> EmptyMap]

\* Game.__init__: players is the list of object references, objs the objects.
GameInit(players, objs, num_rounds, multiplier) ==
    [num_rounds |-> num_rounds,
     multiplier |-> multiplier,
     current_round |-> 0,
     investment_limit |-> InvestmentLimit,
     players |-> players,
     objs |-> objs,
     current_game_log |-> <<>>,
     game_earnings |-> [pid \in {objs[r].player_id : r \in Range(players)} |-> 0],
     last_discussion |-> EmptyMap,
     last_investment_results |-> NoResults,
     phase |-> "INVESTMENT"]

\* The player at list position i.
PlayerAt(g, i) == g.objs[g.players[i]]
PlayerIds(g) == {PlayerAt(g, i).player_id : i \in DOMAIN g.players}

\* The player_id of "no player" (get_human_player returned None).
NoId == 0 - 1

\* Game.get_human_player: the list position of the first player whose name
\* starts with "Human_", 0 for None.
GetHumanPlayer(g) ==
    LET H == {i \in DOMAIN g.players : StartsWithHuman(PlayerAt(g, i).name)}
    IN  IF H = {} THEN 0 ELSE CHOOSE i \in H : \A j \in H : i <= j

\* start_game's slot loop: the participating players for the submitted slots.
\* A persistent slot appends the roster object itself, so two such slots hold
\* one object twice.
SlotKinds == {"human", "personality", "persistent"}
\* Three new agents: the participants of the payoff scenario.
ScenarioSlots == <<"personality", "personality", "personality">>
SlotLists == UNION {[1..n -> SlotKinds] : n \in 0..MaxPlayers} \cup {ScenarioSlots}

FirstPersistent(slots) ==
    CHOOSE i \in DOMAIN slots :
        slots[i] = "persistent" /\ \A j \in DOMAIN slots : slots[j] = "persistent" => i <= j

ParticipatingPlayers(slots) ==
    [k \in DOMAIN slots |-> IF slots[k] = "persistent" THEN FirstPersistent(slots) ELSE k]

ParticipatingObjs(slots) ==
    [r \in Range(ParticipatingPlayers(slots)) |->
        IF slots[r] = "human" THEN NewHuman(r)
        ELSE IF slots[r] = "personality" THEN NewAgent(r)
        ELSE RosterPlayer]

\* _calculate_payoffs dividing the pot among the deciders instead of the
\* participants.
CalculatePayoffsPerDecider(g, decisions) ==
    LET total_pot == SumValues(decisions) * g.multiplier
        share == IF Cardinality(DOMAIN decisions) > 0
                 THEN (total_pot * Unit) \div (MultScale * Cardinality(DOMAIN decisions))
                 ELSE 0
    IN  [pid \in DOMAIN decisions |->
            (g.investment_limit - decisions[pid]) * Unit + share]

\* Game._calculate_payoffs.
CalculatePayoffs(g, decisions) ==
    LET total_investment == SumValues(decisions)
        total_pot == total_investment * g.multiplier
        share == IF Len(g.players) > 0
                 THEN (total_pot * Unit) \div (MultScale * Len(g.players))
                 ELSE 0
    IN  [pid \in DOMAIN decisions |->
            (g.investment_limit - decisions[pid]) * Unit + share]

\* The last list position holding player id pid among the positions P.
LastPos(g, P, pid) ==
    CHOOSE i \in P : PlayerAt(g, i).player_id = pid
        /\ \A j \in P : PlayerAt(g, j).player_id = pid => j <= i

\* Game.process_investment_round: the decisions, payoffs and explanations it
\* stores.
InvestmentResults(g, human_decision, replies) ==
    LET human == GetHumanPlayer(g)
        human_id == IF human = 0 THEN NoId ELSE PlayerAt(g, human).player_id
        \* positions the loop does not skip
        P == {i \in DOMAIN g.players :
                ~(human # 0 /\ PlayerAt(g, i).player_id = human_id)}
        result(i) == IF PlayerAt(g, i).isLLM THEN MakeDecision(replies[i])
                     ELSE <<0, "Default NPC behavior">>
        ids == {PlayerAt(g, i).player_id : i \in P}
        loop_decisions == [pid \in ids |-> result(LastPos(g, P, pid))[1]]
        loop_explanations == [pid \in ids |-> result(LastPos(g, P, pid))[2]]
        override == human # 0 /\ human_decision # None
        decisions == IF override
                     THEN [pid \in ids \cup {human_id} |->
                             IF pid = human_id THEN human_decision[1] ELSE loop_decisions[pid]]
                     ELSE loop_decisions
        explanations == IF override
                        THEN [pid \in ids \cup {human_id} |->
                                IF pid = human_id THEN "Human decision"
                                ELSE loop_explanations[pid]]
                        ELSE loop_explanations
    IN  [decisions |-> decisions, payoffs |-> CalculatePayoffs(g, decisions),
         explanations |-> explanations]

\* process_investment_round crediting each payoff to the bank at once.
ProcessInvestmentRoundCrediting(g, human_decision, replies) ==
    LET results == InvestmentResults(g, human_decision, replies)
    IN  [g EXCEPT !.current_round = g.current_round + 1,
                  !.objs = [r \in DOMAIN g.objs |->
                              [g.objs[r] EXCEPT !.bank =
                                  @ + (IF g.objs[r].player_id \in DOMAIN results.payoffs
                                       THEN results.payoffs[g.objs[r].player_id] ELSE 0)]],
                  !.last_investment_results = results,
                  !.phase = "DISCUSSION"]

\* Game.process_investment_round.
ProcessInvestmentRound(g, human_decision, replies) ==
    [g EXCEPT !.current_round = g.current_round + 1,
              !.last_investment_results = InvestmentResults(g, human_decision, replies),
              !.phase = "DISCUSSION"]

\* round(x, 2) on an amount in units: to the nearest cent, ties to even.
Round2(x) ==
    LET q == x \div Cent
        r == x % Cent
    IN  IF 2 * r < Cent THEN q * Cent
        ELSE IF 2 * r > Cent THEN (q + 1) * Cent
        ELSE IF q % 2 = 0 THEN q * Cent ELSE (q + 1) * Cent

\* dict.get(key, default)
Get(f, key, default) == IF key \in DOMAIN f THEN f[key] ELSE default

\* 'more' / 'less' / 'same' against avg_inv = sum(decisions) / len(decisions),
\* or 0 for no decisions.
Contribution(decision, decisions) ==
    LET n == Cardinality(DOMAIN decisions)
        \* decision and avg_inv, both times n (or as they are, for no decisions)
        lhs == IF n > 0 THEN decision * n ELSE decision
        rhs == IF n > 0 THEN SumValues(decisions) ELSE 0
    IN  IF lhs > rhs THEN "more" ELSE IF lhs < rhs THEN "less" ELSE "same"

\* The number of list positions that hold the object r / the player id pid.
PositionsOfRef(g, r) == Cardinality({i \in DOMAIN g.players : g.players[i] = r})
PositionsOfId(g, pid) ==
    Cardinality({i \in DOMAIN g.players : PlayerAt(g, i).player_id = pid})

\* The log entries _log_completed_round builds, one per list position.
RoundLogEntries(g, statements) ==
    LET decisions == g.last_investment_results.decisions
        payoffs == g.last_investment_results.payoffs
        explanations == g.last_investment_results.explanations
        entry(i) ==
            LET player == PlayerAt(g, i)
                payoff == Get(payoffs, player.player_id, 0)
                decision == Get(decisions, player.player_id, 0)
            IN  [round |-> g.current_round,
                 player_id |-> player.player_id,
                 player_name |-> player.name,
                 player_type |-> IF player.isLLM THEN player.personality
                                 ELSE player.player_type,
                 decision |-> decision,
                 payoff |-> Round2(payoff),
                 contribution |-> Contribution(decision, decisions),
                 statement |-> Get(statements, player.player_id, "N/A"),
                 thinking |-> Get(explanations, player.player_id, "N/A")]
    IN  [i \in DOMAIN g.players |-> entry(i)]

\* _log_completed_round without the update of game_earnings.
LogCompletedRoundBankOnly(g, statements) ==
    LET payoffs == g.last_investment_results.payoffs
    IN  [g EXCEPT
            !.objs = [r \in DOMAIN g.objs |->
                        [g.objs[r] EXCEPT !.bank =
                            @ + PositionsOfRef(g, r) * Get(payoffs, g.objs[r].player_id, 0)]],
            !.current_game_log = g.current_game_log \o RoundLogEntries(g, statements)]

\* _log_completed_round putting the new entries in front of the log.
LogCompletedRoundPrepending(g, statements) ==
    LET payoffs == g.last_investment_results.payoffs
        round_log_entries == RoundLogEntries(g, statements)
    IN  [g EXCEPT
            !.objs = [r \in DOMAIN g.objs |->
                        [g.objs[r] EXCEPT !.bank =
                            @ + PositionsOfRef(g, r) * Get(payoffs, g.objs[r].player_id, 0)]],
            !.game_earnings = [pid \in DOMAIN g.game_earnings |->
                        g.game_earnings[pid]
                            + PositionsOfId(g, pid) * Get(payoffs, pid, 0)],
            !.current_game_log = round_log_entries \o g.current_game_log]

\* Game._log_completed_round: one pass over the player list, each position
\* adding the payoff to its object's bank and to game_earnings, and one log
\* entry per position.
LogCompletedRound(g, statements) ==
    LET payoffs == g.last_investment_results.payoffs
        round_log_entries == RoundLogEntries(g, statements)
    IN  [g EXCEPT
            !.objs = [r \in DOMAIN g.objs |->
                        [g.objs[r] EXCEPT !.bank =
                            @ + PositionsOfRef(g, r) * Get(payoffs, g.objs[r].player_id, 0)]],
            !.game_earnings = [pid \in DOMAIN g.game_earnings |->
                        g.game_earnings[pid]
                            + PositionsOfId(g, pid) * Get(payoffs, pid, 0)],
            !.current_game_log = g.current_game_log \o round_log_entries]

\* The statements process_discussion_round collects.
Statements(g, human_statement, replies) ==
    LET human == GetHumanPlayer(g)
        human_id == IF human = 0 THEN NoId ELSE PlayerAt(g, human).player_id
        first == IF human # 0 /\ human_statement # None THEN {human_id} ELSE {}
        L == {i \in DOMAIN g.players : PlayerAt(g, i).isLLM}
        S == {i \in DOMAIN g.players :
                ~PlayerAt(g, i).isLLM /\ PlayerAt(g, i).player_type = "human"
                /\ PlayerAt(g, i).player_id # human_id}
        P == L \cup S
        ids == {PlayerAt(g, i).player_id : i \in P}
        said(i) == IF i \in L THEN MakeStatement(replies[i]) ELSE "..."
    IN  [pid \in first \cup ids |->
            IF pid \in ids THEN said(LastPos(g, P, pid)) ELSE human_statement[1]]

\* process_discussion_round ending the game one round early.
ProcessDiscussionRoundEndingEarly(g, human_statement, replies) ==
    LET statements == Statements(g, human_statement, replies)
        g1 == [g EXCEPT !.last_discussion = statements]
        g2 == LogCompletedRound(g1, statements)
    IN  [g2 EXCEPT !.phase = IF g2.current_round + 1 >= g2.num_rounds
                              THEN "GAMEOVER" ELSE "INVESTMENT"]

\* Game.process_discussion_round (the export is SaveGameToCsv below).
ProcessDiscussionRound(g, human_statement, replies) ==
    LET statements == Statements(g, human_statement, replies)
        g1 == [g EXCEPT !.last_discussion = statements]
        g2 == LogCompletedRound(g1, statements)
    IN  [g2 EXCEPT !.phase = IF g2.current_round >= g2.num_rounds
                              THEN "GAMEOVER" ELSE "INVESTMENT"]

\* save_game_to_csv is called by process_discussion_round when it sets
\* GAMEOVER, and writes a file unless the log is empty: the files written.
SaveGameToCsv(g) ==
    IF g.phase = "GAMEOVER" /\ g.current_game_log # <<>> THEN 1 ELSE 0

\* ---------------------------------------------------- serialization
\* Player.to_dict / LLMAgent.to_dict: the class and the history are not
\* written.
PlayerToDict(player) ==
    [player_id |-> player.player_id, name |-> player.name,
     player_type |-> player.player_type, bank |-> player.bank,
     personality |-> player.personality]

\* Player.from_dict: the class is chosen by player_type.
PlayerFromDict(data) ==
    [player_id |-> data.player_id, name |-> data.name,
     player_type |-> data.player_type, bank |-> data.bank,
     personality |-> data.personality,
     isLLM |-> (data.player_type = "ai_llm")]

\* Game.to_dict.
ToDict(g) ==
    [num_rounds |-> g.num_rounds, multiplier |-> g.multiplier,
     current_round |-> g.current_round, investment_limit |-> g.investment_limit,
     players |-> [i \in DOMAIN g.players |-> PlayerToDict(PlayerAt(g, i))],
     current_game_log |-> g.current_game_log, game_earnings |-> g.game_earnings,
     last_discussion |-> g.last_discussion,
     last_investment_results |-> g.last_investment_results,
     phase |-> g.phase]

\* from_dict without the restore of current_game_log.
FromDictFreshLog(data) ==
    LET players == [i \in DOMAIN data.players |-> i]
        objs == [i \in DOMAIN data.players |-> PlayerFromDict(data.players[i])]
        game == GameInit(players, objs, data.num_rounds, data.multiplier)
    IN  [game EXCEPT !.current_round = data.current_round,
                     !.game_earnings = data.game_earnings,
                     !.last_discussion = data.last_discussion,
                     !.last_investment_results = data.last_investment_results,
                     !.phase = data.phase]

\* Game.from_dict: every list position gets an object of its own.
FromDict(data) ==
    LET players == [i \in DOMAIN data.players |-> i]
        objs == [i \in DOMAIN data.players |-> PlayerFromDict(data.players[i])]
        game == GameInit(players, objs, data.num_rounds, data.multiplier)
    IN  [game EXCEPT !.current_round = data.current_round,
                     !.current_game_log = data.current_game_log,
                     !.game_earnings = data.game_earnings,
                     !.last_discussion = data.last_discussion,
                     !.last_investment_results = data.last_investment_results,
                     !.phase = data.phase]

\* -------------------------------------------------------------- state
\* game:        the Game object (between requests: the one the stored
\*              session state deserializes to)
\* pc:          "run_full_ai_game" inside start_game's loop, "idle" between
\*              requests and calls
\* logged_rounds: the value of current_round at each call of
\*              _log_completed_round so far, in call order
\* csv_exports: the files save_game_to_csv has written
\* provider_up: whether the LLM provider answers (TRUE) or raises (FALSE)
VARIABLES game, pc, logged_rounds, csv_exports, provider_up

vars == <<game, pc, logged_rounds, csv_exports, provider_up>>

phase == game.phase
current_round == game.current_round
num_rounds == game.num_rounds
current_game_log == game.current_game_log
game_earnings == game.game_earnings
\* bank of the player at each list position
Banks(g) == [i \in DOMAIN g.players |-> PlayerAt(g, i).bank]

\* start_game up to the Game it constructs (or a direct caller constructing
\* the same Game).
Init ==
    \E slots \in SlotLists, n \in RoundCounts, m \in Multipliers :
        /\ game = GameInit(ParticipatingPlayers(slots), ParticipatingObjs(slots), n, m)
        /\ pc = IF GetHumanPlayer(game) = 0 THEN "run_full_ai_game" ELSE "idle"
        /\ logged_rounds = <<>>
        /\ csv_exports = 0
        /\ provider_up \in BOOLEAN

\* A direct caller is followed for LogRoundsCap calls of _log_completed_round.
LogHasRoom == Len(logged_rounds) < LogRoundsCap

\* A direct call of game.process_investment_round(human_decision), by a
\* caller that picks the method by the phase as run_full_ai_game does but
\* does not stop at GAMEOVER.
CallInvestment ==
    /\ pc = "idle"
    /\ phase \in {"INVESTMENT", "GAMEOVER"}
    /\ game.current_round < RoundCap
    /\ \E hd \in HumanDecisions, replies \in ReplyProfiles(Len(game.players), provider_up) :
          game' = ProcessInvestmentRound(game, hd, replies)
    /\ UNCHANGED <<pc, logged_rounds, csv_exports, provider_up>>

\* A direct call of game.process_discussion_round(human_statement), by the
\* same caller.
CallDiscussion ==
    /\ pc = "idle"
    /\ phase \in {"DISCUSSION", "GAMEOVER"}
    /\ LogHasRoom
    /\ \E hs \in HumanStatements, replies \in ReplyProfiles(Len(game.players), provider_up) :
          game' = ProcessDiscussionRound(game, hs, replies)
    /\ logged_rounds' = Append(logged_rounds, game'.current_round)
    /\ csv_exports' = csv_exports + SaveGameToCsv(game')
    /\ UNCHANGED <<pc, provider_up>>

\* One iteration of run_full_ai_game's loop, or its exit, after which
\* start_game stores the state in the session.
RunFullAiGame ==
    /\ pc = "run_full_ai_game"
    /\ \/ /\ phase = "INVESTMENT"
          /\ \E replies \in ReplyProfiles(Len(game.players), provider_up) :
                game' = ProcessInvestmentRound(game, None, replies)
          /\ UNCHANGED <<pc, logged_rounds, csv_exports, provider_up>>
       \/ /\ phase = "DISCUSSION"
          /\ \E replies \in ReplyProfiles(Len(game.players), provider_up) :
                game' = ProcessDiscussionRound(game, None, replies)
          /\ logged_rounds' = Append(logged_rounds, game'.current_round)
          /\ csv_exports' = csv_exports + SaveGameToCsv(game')
          /\ UNCHANGED <<pc, provider_up>>
       \/ /\ phase = "GAMEOVER"
          /\ pc' = "idle"
          /\ UNCHANGED <<game, logged_rounds, csv_exports, provider_up>>

\* A route that tells the investment phase from every other phase only, and
\* so runs the discussion phase on a finished game too.
RouteIgnoringGameover(hd, hs) ==
    LET g == FromDict(ToDict(game))
    IN  \/ /\ g.phase = "INVESTMENT"
           /\ \E replies \in ReplyProfiles(Len(g.players), provider_up) :
                 game' = ProcessInvestmentRound(g, hd, replies)
           /\ UNCHANGED <<pc, logged_rounds, csv_exports, provider_up>>
        \/ /\ g.phase # "INVESTMENT"
           /\ LogHasRoom
           /\ \E replies \in ReplyProfiles(Len(g.players), provider_up) :
                 game' = ProcessDiscussionRound(g, hs, replies)
           /\ logged_rounds' = Append(logged_rounds, game'.current_round)
           /\ csv_exports' = csv_exports + SaveGameToCsv(game')
           /\ UNCHANGED <<pc, provider_up>>

\* A route that plays the investment phase and the discussion phase of a
\* round in one request.
RouteThroughRound(hd, hs) ==
    LET g == FromDict(ToDict(game))
    IN  \/ /\ g.phase \in {"INVESTMENT", "DISCUSSION"}
           /\ \E r1 \in ReplyProfiles(Len(g.players), provider_up),
                 r2 \in ReplyProfiles(Len(g.players), provider_up) :
                 game' = ProcessDiscussionRound(
                            IF g.phase = "INVESTMENT"
                            THEN ProcessInvestmentRound(g, hd, r1) ELSE g, hs, r2)
           /\ logged_rounds' = Append(logged_rounds, game'.current_round)
           /\ csv_exports' = csv_exports + SaveGameToCsv(game')
           /\ UNCHANGED <<pc, provider_up>>
        \/ /\ g.phase \notin {"INVESTMENT", "DISCUSSION"}
           /\ game' = g
           /\ UNCHANGED <<pc, logged_rounds, csv_exports, provider_up>>

\* The body shared by submit_action and run_ai_turn: deserialize, one
\* transition chosen by the phase, serialize.
Route(hd, hs) ==
    LET g == FromDict(ToDict(game))
    IN  \/ /\ g.phase = "INVESTMENT"
           /\ \E replies \in ReplyProfiles(Len(g.players), provider_up) :
                 game' = ProcessInvestmentRound(g, hd, replies)
           /\ UNCHANGED <<pc, logged_rounds, csv_exports, provider_up>>
        \/ /\ g.phase = "DISCUSSION"
           /\ \E replies \in ReplyProfiles(Len(g.players), provider_up) :
                 game' = ProcessDiscussionRound(g, hs, replies)
           /\ logged_rounds' = Append(logged_rounds, game'.current_round)
           /\ csv_exports' = csv_exports + SaveGameToCsv(game')
           /\ UNCHANGED <<pc, provider_up>>
        \/ /\ g.phase \notin {"INVESTMENT", "DISCUSSION"}
           /\ game' = g
           /\ UNCHANGED <<pc, logged_rounds, csv_exports, provider_up>>

\* POST /submit_action: the form's investment (an int) or statement.
SubmitAction ==
    /\ pc = "idle"
    /\ \E hd \in HumanDecisions \ {None}, hs \in HumanStatements \ {None} : Route(hd, hs)

\* POST /run_ai_turn: no override.
RunAiTurn ==
    /\ pc = "idle"
    /\ Route(None, None)

Next ==
    \/ CallInvestment
    \/ CallDiscussion
    \/ RunFullAiGame
    \/ SubmitAction
    \/ RunAiTurn

Spec == Init /\ [][Next]_vars

\* The game as the web application alone drives it.
NextApp ==
    \/ RunFullAiGame
    \/ SubmitAction
    \/ RunAiTurn

SpecApp == Init /\ [][NextApp]_vars

\* An all-AI game as start_game runs it: run_full_ai_game's loop alone, which
\* takes its next iteration whenever it has one.
SpecObserver == Init /\ [][RunFullAiGame]_vars /\ WF_vars(RunFullAiGame)

\* ------------------------------------------------------------- claims
Positions == DOMAIN game.players
last_investment_results == game.last_investment_results

\* C1: the phase only ever changes INVESTMENT -> DISCUSSION,
\* DISCUSSION -> INVESTMENT or DISCUSSION -> GAMEOVER, whatever sequence of
\* process_investment_round and process_discussion_round calls drives the game.
C1_PhaseSequence ==
    [][phase' # phase =>
          <<phase, phase'>> \in {<<"INVESTMENT", "DISCUSSION">>,
                                 <<"DISCUSSION", "INVESTMENT">>,
                                 <<"DISCUSSION", "GAMEOVER">>}]_vars

\* C2: current_round never exceeds num_rounds, the configured total.
C2_RoundWithinTotal == current_round <= num_rounds

\* The discussion phase of round r has completed: _log_completed_round ran
\* for it, and its entries are in the round log.
DiscussionCompleted(r) ==
    /\ \E k \in DOMAIN logged_rounds : logged_rounds[k] = r
    /\ \A i \in Positions :
          \E k \in DOMAIN current_game_log :
              /\ current_game_log[k].round = r
              /\ current_game_log[k].player_id = PlayerAt(game, i).player_id

\* C3: the phase is GAMEOVER exactly when current_round = num_rounds and the
\* discussion phase of that round has completed.
C3_GameOverIff ==
    phase = "GAMEOVER" <=> (current_round = num_rounds /\ DiscussionCompleted(num_rounds))

\* C4: GAMEOVER is terminal: a step taken from a GAMEOVER game leaves the
\* phase, current_round, the banks, game_earnings and the round log as they are.
C4_GameOverTerminal ==
    [][phase = "GAMEOVER" =>
          /\ phase' = "GAMEOVER"
          /\ current_round' = current_round
          /\ Banks(game') = Banks(game)
          /\ game_earnings' = game_earnings
          /\ current_game_log' = current_game_log]_vars

\* The multiplied pot of a decision map, in units.
FullPot(g, decisions) == (SumValues(decisions) * g.multiplier * Unit) \div MultScale

\* What the deciders of a decision map keep, in units.
KeptAllocation(g, decisions) ==
    SumValues([pid \in DOMAIN decisions |-> (g.investment_limit - decisions[pid]) * Unit])

\* C5: the payoffs computed by an investment phase sum to what the deciders
\* kept plus the full multiplied pot: the pot is never partially distributed.
C5_PotFullyDistributed ==
    SumValues(last_investment_results.payoffs)
        = KeptAllocation(game, last_investment_results.decisions)
            + FullPot(game, last_investment_results.decisions)

\* C6: every payoff is (investment_limit - own decision) + (sum of all
\* decisions * multiplier) / participant count; with three participants,
\* multiplier 1.5 and decisions 0, 5, 5 the payoffs are 10, 5, 5.
ScenarioPlayed ==
    /\ game.players = <<1, 2, 3>>
    /\ game.multiplier = 150
    /\ last_investment_results.decisions = <<0, 5, 5>>

C6_PayoffRule ==
    LET decisions == last_investment_results.decisions
        payoffs == last_investment_results.payoffs
        n == Len(game.players)
    IN  /\ DOMAIN payoffs = DOMAIN decisions
        /\ \A pid \in DOMAIN payoffs :
              payoffs[pid] * MultScale * n
                  = ((game.investment_limit - decisions[pid]) * MultScale * n
                        + SumValues(decisions) * game.multiplier) * Unit
        /\ ScenarioPlayed => payoffs = <<10 * Unit, 5 * Unit, 5 * Unit>>

C6_Witness ==
    /\ ScenarioPlayed
    /\ last_investment_results.payoffs = <<10 * Unit, 5 * Unit, 5 * Unit>>

\* C7: a call of _log_completed_round changes the bank of the participant at
\* every list position by exactly that participant's payoff of the round.
C7_BankPlusPayoffOnce ==
    [][Len(logged_rounds') > Len(logged_rounds) =>
          \A i \in Positions :
              Banks(game')[i]
                  = Banks(game)[i]
                      + Get(last_investment_results.payoffs, PlayerAt(game, i).player_id, 0)]_vars

\* The payoff values of the round-log entries recorded for pid, summed, and
\* the number of those entries.
EntriesOf(pid) == {k \in DOMAIN current_game_log : current_game_log[k].player_id = pid}
LoggedPayoffs(pid) ==
    SumValues([k \in EntriesOf(pid) |-> current_game_log[k].payoff])

\* C8 as stated: game_earnings[p] equals the sum of the payoff values of p's
\* round-log entries.
C8_EarningsEqualLoggedPayoffs ==
    \A pid \in DOMAIN game_earnings : game_earnings[pid] = LoggedPayoffs(pid)

\* C8 as amended: the log holds each payoff rounded to a cent, so
\* game_earnings[p] is within half a cent per entry of the sum of the payoff
\* values of p's round-log entries.
C8_EarningsWithinRounding ==
    \A pid \in DOMAIN game_earnings :
        LET diff == game_earnings[pid] - LoggedPayoffs(pid)
            bound == Cent * Cardinality(EntriesOf(pid))
        IN  2 * diff <= bound /\ 2 * diff >= 0 - bound

C8_Witness ==
    \E pid \in DOMAIN game_earnings :
        /\ EntriesOf(pid) # {}
        /\ game_earnings[pid] # LoggedPayoffs(pid)

\* C9: a step in which _log_completed_round does not run (an investment
\* phase with its payoff computation, a round trip through to_dict and
\* from_dict) leaves every bank, game_earnings and the round log unchanged.
C9_OnlyLoggingMutatesBanks ==
    /\ [][Len(logged_rounds') = Len(logged_rounds) =>
              /\ Banks(game') = Banks(game)
              /\ game_earnings' = game_earnings
              /\ current_game_log' = current_game_log]_vars
    /\ [](LET restored == FromDict(ToDict(game))
          IN  /\ Banks(restored) = Banks(game)
              /\ restored.game_earnings = game_earnings
              /\ restored.current_game_log = current_game_log)

C9_Witness ==
    /\ phase = "DISCUSSION"
    /\ current_round > Len(logged_rounds)
    /\ \E pid \in DOMAIN last_investment_results.payoffs :
          last_investment_results.payoffs[pid] > 0

\* What a caller can observe of a Game.
Observable(g) ==
    [phase |-> g.phase, current_round |-> g.current_round,
     num_rounds |-> g.num_rounds, multiplier |-> g.multiplier,
     player_ids |-> [i \in DOMAIN g.players |-> PlayerAt(g, i).player_id],
     banks |-> Banks(g),
     decision_source_backed |-> [i \in DOMAIN g.players |-> PlayerAt(g, i).isLLM],
     game_earnings |-> g.game_earnings,
     last_investment_results |-> g.last_investment_results,
     last_discussion |-> g.last_discussion,
     current_game_log |-> g.current_game_log]

\* C10: Game.from_dict(g.to_dict()) is observably identical to g.
C10_RoundTripIdentity == Observable(FromDict(ToDict(game))) = Observable(game)

C10_Witness ==
    /\ phase = "DISCUSSION"
    /\ current_game_log # <<>>
    /\ \E i \in Positions : PlayerAt(game, i).isLLM
    /\ \E i \in Positions : ~PlayerAt(game, i).isLLM

\* The rounds whose discussion phase has finished, and the log entries that
\* carry round number r for player id pid.
CompletedRounds == Range(logged_rounds)
EntriesFor(r, pid) ==
    {k \in DOMAIN current_game_log :
        current_game_log[k].round = r /\ current_game_log[k].player_id = pid}

\* C11: with N participants and k completed rounds the round log has exactly
\* N * k entries, carrying the round numbers 1..k, and exactly one entry per
\* participant and completed round.
C11_OneEntryPerParticipantRound ==
    LET k == Cardinality(CompletedRounds)
    IN  /\ CompletedRounds = 1..k
        /\ Len(current_game_log) = Len(game.players) * k
        /\ \A n \in DOMAIN current_game_log : current_game_log[n].round \in 1..k
        /\ \A r \in 1..k : \A pid \in PlayerIds(game) :
              Cardinality(EntriesFor(r, pid)) = 1

\* s is a prefix of t.
IsPrefix(s, t) == Len(s) <= Len(t) /\ \A k \in DOMAIN s : s[k] = t[k]

\* C12: the round log is append-only: across every transition (investment
\* phase, discussion phase, the routes' from_dict/to_dict round trip) the
\* earlier log is a prefix of the later log.
C12_LogAppendOnly ==
    [][IsPrefix(current_game_log, current_game_log')]_vars

\* Entries of a second round were appended behind those of the first.
C12_Witness ==
    /\ Len(logged_rounds) >= 2
    /\ Len(current_game_log) >= 2
    /\ current_game_log[1].round = 1
    /\ current_game_log[Len(current_game_log)].round = 2

\* C13: a game without a human participant and with num_rounds >= 1, driven
\* by run_full_ai_game alone, reaches GAMEOVER and the loop returns, after
\* exactly num_rounds investment phases (current_round counts them) and
\* num_rounds discussion phases (logged_rounds counts them).
C13_UnattendedGameTerminates ==
    /\ (pc = "run_full_ai_game" /\ num_rounds >= 1)
          ~> (pc = "idle" /\ phase = "GAMEOVER")
    /\ [](num_rounds >= 1 /\ phase = "GAMEOVER" =>
              /\ current_round = num_rounds
              /\ Len(logged_rounds) = num_rounds)

C13_Witness ==
    /\ GetHumanPlayer(game) = 0
    /\ Len(game.players) >= 1
    /\ pc = "idle"
    /\ phase = "GAMEOVER"
    /\ num_rounds = 2
    /\ current_round = 2
    /\ Len(logged_rounds) = 2

\* The log entry e belongs to a decision-source-backed participant.
DecisionSourceBacked(e) ==
    \E i \in Positions :
        PlayerAt(game, i).player_id = e.player_id /\ PlayerAt(game, i).isLLM

\* C14: when every provider call raises, every completed round still has a
\* log entry for every participant, and every entry of a decision-source-backed
\* participant has decision 0, the fallback rationale and the "..." statement.
C14_FailingSourceStillLogs ==
    ~provider_up =>
        /\ \A r \in CompletedRounds : \A i \in Positions :
              EntriesFor(r, PlayerAt(game, i).player_id) # {}
        /\ \A k \in DOMAIN current_game_log :
              DecisionSourceBacked(current_game_log[k]) =>
                  /\ current_game_log[k].decision = 0
                  /\ current_game_log[k].thinking = "API Error"
                  /\ current_game_log[k].statement = "..."

C14_Witness ==
    /\ ~provider_up
    /\ Len(logged_rounds) >= 2
    /\ \E k \in DOMAIN current_game_log :
          /\ DecisionSourceBacked(current_game_log[k])
          /\ current_game_log[k].round = 2
          /\ current_game_log[k].thinking = "API Error"

\* C15: every decision stored in last_investment_results and in the round
\* log lies in 0..investment_limit, the override of submit_action included.
C15_DecisionsWithinLimit ==
    /\ \A pid \in DOMAIN last_investment_results.decisions :
          last_investment_results.decisions[pid] \in 0..game.investment_limit
    /\ \A k \in DOMAIN current_game_log :
          current_game_log[k].decision \in 0..game.investment_limit

\* C16: save_game_to_csv writes the export exactly once per game, in the
\* step that takes the phase from DISCUSSION to GAMEOVER: no export before
\* or after that step, and a GAMEOVER game has its one export.
C16_ExportExactlyOnce ==
    /\ [][csv_exports' # csv_exports =>
              /\ phase = "DISCUSSION"
              /\ phase' = "GAMEOVER"
              /\ csv_exports = 0
              /\ csv_exports' = 1]_vars
    /\ [](phase = "GAMEOVER" => csv_exports = 1)

\* The payoff rule for decision 0, given the stored decisions, times
\* MultScale * Len(players) (see C6).
PayoffRuleForZero ==
    (game.investment_limit * MultScale * Len(game.players)
        + SumValues(last_investment_results.decisions) * game.multiplier) * Unit

\* C17: after an investment phase every participant has an entry in the
\* stored decisions, payoffs and explanations, and a participant that is not
\* decision-source-backed and got no override has decision 0, a label and the
\* payoff of the payoff rule for decision 0.
C17_EveryParticipantHasDecision ==
    current_round >= 1 =>
        /\ DOMAIN last_investment_results.decisions = PlayerIds(game)
        /\ DOMAIN last_investment_results.payoffs = PlayerIds(game)
        /\ DOMAIN last_investment_results.explanations = PlayerIds(game)
        /\ \A i \in Positions :
              LET pid == PlayerAt(game, i).player_id
              IN  (~PlayerAt(game, i).isLLM
                      /\ last_investment_results.explanations[pid] # "Human decision") =>
                      /\ last_investment_results.decisions[pid] = 0
                      /\ last_investment_results.explanations[pid] = "Default NPC behavior"
                      /\ last_investment_results.payoffs[pid] * MultScale * Len(game.players)
                            = PayoffRuleForZero

\* C18: _calculate_payoffs (called once by every investment phase) never
\* runs for a game without participants: a game that has played an
\* investment phase has at least one participant.
C18_PayoffEngineHasParticipants ==
    current_round >= 1 => Len(game.players) >= 1

\* C19: the participants' player_ids are pairwise distinct.
C19_DistinctPlayerIds ==
    \A i, j \in Positions :
        i # j => PlayerAt(game, i).player_id # PlayerAt(game, j).player_id

\* C20: a game with num_rounds <= 0 is rejected at construction, so no
\* investment or discussion phase ever runs on one.
C20_NonPositiveRoundsRejected ==
    num_rounds <= 0 => (current_round = 0 /\ logged_rounds = <<>>)

\* C21: a call that supplies an override (human_decision or human_statement)
\* on a game without a designated human is rejected: no step of a direct
\* caller is the completed transition of such a call.
C21_OverrideWithoutHumanRejected ==
    [][(pc = "idle" /\ GetHumanPlayer(game) = 0) =>
          /\ ~ \E hd \in HumanDecisions \ {None},
                  replies \in ReplyProfiles(Len(game.players), provider_up) :
                    game' = ProcessInvestmentRound(game, hd, replies)
          /\ ~ \E hs \in HumanStatements \ {None},
                  replies \in ReplyProfiles(Len(game.players), provider_up) :
                    game' = ProcessDiscussionRound(game, hs, replies)]_vars

\* Game._create_game_state_summary for the player at position i: the history
\* lines built from the round log (with the reader's own entries marked
\* "You") and, unless for_statement, the "Your Turn" part.
CreateGameStateSummary(g, i, for_statement) ==
    [history |-> [k \in DOMAIN g.current_game_log |->
                    LET action == g.current_game_log[k]
                    IN  [round |-> action.round,
                         player_name |-> action.player_name,
                         you |-> (action.player_id = PlayerAt(g, i).player_id),
                         decision |-> action.decision,
                         contribution |-> action.contribution,
                         payoff |-> action.payoff,
                         statement |-> action.statement]],
     turn |-> IF for_statement THEN None
              ELSE Some([round |-> g.current_round + 1,
                         bank |-> PlayerAt(g, i).bank,
                         investment_limit |-> g.investment_limit,
                         multiplier |-> g.multiplier])]

\* The digest of process_investment_round also listing the decisions the
\* loop has collected from the earlier list positions.
InvestmentDigestWithCollected(g, i, replies) ==
    LET self == [g EXCEPT !.current_round = g.current_round + 1]
        summary == CreateGameStateSummary(self, i, FALSE)
        earlier == {j \in DOMAIN g.players : j < i /\ PlayerAt(g, j).isLLM}
    IN  [history |-> summary.history, turn |-> summary.turn,
         collected |-> [j \in earlier |-> MakeDecision(replies[j])[1]]]

\* The summary process_investment_round hands to make_decision of the player
\* at position i, in a call whose provider replies are `replies`: the loop
\* keeps the decisions collected so far in a local dict, so self is the game
\* as it was after the increment of current_round.
InvestmentDigest(g, i, replies) ==
    LET self == [g EXCEPT !.current_round = g.current_round + 1]
    IN  CreateGameStateSummary(self, i, FALSE)

C23_DigestRoundNumber ==
    phase # "DISCUSSION" =>
        \A replies \in ReplyProfiles(Len(game.players), provider_up) : \A i \in Positions :
            InvestmentDigest(game, i, replies).turn[1].round
                = ProcessInvestmentRound(game, None, replies).current_round

\* The log entries that carry round number r, and the sum of their decisions:
\* the decisions of all participants in round r.
EntriesOfRound(r) == {k \in DOMAIN current_game_log : current_game_log[k].round = r}
DecisionsOfRound(r) ==
    SumValues([k \in EntriesOfRound(r) |-> current_game_log[k].decision])

\* C24: the contribution tag of every log entry compares the entry's decision
\* with the mean decision of all participants in its round: 'more' iff
\* greater, 'less' iff less, 'same' otherwise (both sides times the number of
\* participants).
C24_ContributionTag ==
    \A k \in DOMAIN current_game_log :
        LET e == current_game_log[k]
            n == Cardinality(EntriesOfRound(e.round))
            total == DecisionsOfRound(e.round)
        IN  /\ e.contribution = "more" <=> e.decision * n > total
            /\ e.contribution = "less" <=> e.decision * n < total
            /\ e.contribution = "same" <=> e.decision * n = total

\* What C25 observes of a Game.
Resumable(g) ==
    [phase |-> g.phase, current_round |-> g.current_round, banks |-> Banks(g),
     game_earnings |-> g.game_earnings, current_game_log |-> g.current_game_log]

\* C25: the phase transition of the in-memory Game and the same transition
\* of the Game restored by from_dict from its stored to_dict state, with the
\* same decisions and statements, end in the same observable state.
C25_SuspendResumeTransparent ==
    LET restored == FromDict(ToDict(game))
    IN  \A replies \in ReplyProfiles(Len(game.players), provider_up) :
            /\ phase = "INVESTMENT" =>
                  \A hd \in HumanDecisions :
                      Resumable(ProcessInvestmentRound(restored, hd, replies))
                          = Resumable(ProcessInvestmentRound(game, hd, replies))
            /\ phase = "DISCUSSION" =>
                  \A hs \in HumanStatements :
                      Resumable(ProcessDiscussionRound(restored, hs, replies))
                          = Resumable(ProcessDiscussionRound(game, hs, replies))

\* The phase methods that have completed so far: every investment phase
\* increments current_round, every discussion phase calls
\* _log_completed_round, and each changes the phase.
TransitionsDone(g, logged) == g.current_round + Len(logged)

\* C26 as stated: every invocation, the start_game request included, makes
\* at most one phase transition.
C26_AtMostOneTransition ==
    /\ [](pc = "run_full_ai_game" => TransitionsDone(game, logged_rounds) <= 1)
    /\ [][pc = "idle" =>
              TransitionsDone(game', logged_rounds')
                  <= TransitionsDone(game, logged_rounds) + 1]_vars

\* C26 as amended: a call of a phase method and a request handled by
\* submit_action or run_ai_turn make at most one phase transition; the
\* start_game request of a game without a human returns at GAMEOVER, after
\* the two transitions of every round.
C26_OneTransitionPerCallOrRoute ==
    /\ [][pc = "idle" =>
              /\ TransitionsDone(game', logged_rounds')
                    <= TransitionsDone(game, logged_rounds) + 1
              /\ phase' # phase =>
                    TransitionsDone(game', logged_rounds')
                        = TransitionsDone(game, logged_rounds) + 1]_vars
    /\ [][(pc = "run_full_ai_game" /\ pc' = "idle") =>
              /\ phase = "GAMEOVER"
              /\ TransitionsDone(game, logged_rounds) = 2 * Max(1, num_rounds)]_vars

\* An interactive game in the discussion phase of its second round, three
\* transitions after start_game.
C26_Witness ==
    /\ GetHumanPlayer(game) # 0
    /\ pc = "idle"
    /\ phase = "DISCUSSION"
    /\ current_round = 2
    /\ TransitionsDone(game, logged_rounds) = 3

\* C27: no transition decreases the bank of any participant.
C27_BankMonotone ==
    [][\A i \in Positions : Banks(game')[i] >= Banks(game)[i]]_vars

\* C28: the entries a discussion phase appends to the round log carry, for
\* the participant at every list position, the decision and the payoff
\* (rounded to a cent) that the round's investment phase computed for that
\* participant, also when the state went through to_dict and from_dict in
\* between (the routes).
C28_LogMatchesInvestmentResults ==
    [][Len(logged_rounds') > Len(logged_rounds) =>
          \A i \in Positions :
              LET pid == PlayerAt(game, i).player_id
                  e == current_game_log'[Len(current_game_log) + i]
              IN  /\ pid \in DOMAIN last_investment_results.decisions
                  /\ e.player_id = pid
                  /\ e.decision = last_investment_results.decisions[pid]
                  /\ e.payoff = Round2(last_investment_results.payoffs[pid])]_vars

\* The bank with which the participant with player id pid entered the game:
\* the roster's carried-over bank, or the default of a new player.
StartBank(pid) ==
    IF pid = RosterId THEN RosterPlayer.bank ELSE DefaultBank * Unit

\* C29: for every participant, bank - game_earnings is the bank at game start.
C29_BankMinusEarningsConstant ==
    \A i \in Positions :
        LET pid == PlayerAt(game, i).player_id
        IN  PlayerAt(game, i).bank - game_earnings[pid] = StartBank(pid)

\* C30: when the stored game state has phase GAMEOVER, a request to
\* submit_action or run_ai_turn writes back the state it read (same phase,
\* round, banks, earnings and log), runs no logging and produces no export.
C30_GameoverRoutesAreNoOps ==
    [][(pc = "idle" /\ ToDict(game).phase = "GAMEOVER") =>
          /\ ToDict(game') = ToDict(game)
          /\ Resumable(game') = Resumable(game)
          /\ logged_rounds' = logged_rounds
          /\ csv_exports' = csv_exports]_vars

\* A finished game whose two slots hold the same roster player as two
\* objects: the state a route wrote back after from_dict rebuilt the list.
C30_Witness ==
    /\ pc = "idle"
    /\ phase = "GAMEOVER"
    /\ csv_exports = 1
    /\ Len(game.players) = 2
    /\ game.players[1] # game.players[2]
    /\ PlayerAt(game, 1).player_id = PlayerAt(game, 2).player_id

====
